---------------------------- MODULE Spec2Model ----------------------------
(***************************************************************************)
(* A model of the AnyVid backend (src/backend): the download endpoint      *)
(* (download_proxy), the dual-stream mux pipeline (stream_ffmpeg_merge and *)
(* its relay generator), the format catalog builder of                    *)
(* services/downloader.py and the info endpoint (get_video_info).          *)
(*                                                                         *)
(* URLs and format ids are sequences of one-character strings, so that     *)
(* prefix tests, splitting and percent-decoding are computed; labels are   *)
(* strings built by concatenation, so that label equality is string        *)
(* equality.                                                               *)
(***************************************************************************)
EXTENDS Integers, Sequences, FiniteSets, TLC

VARIABLES
    pc,         \* position of the one /api/download request that is modelled
    req,        \* the request: query parameter url, Range header, the upstream it names
    resp,       \* the response returned by download_proxy (NoResp until it returns)
    net_calls,  \* number of upstream HTTP requests sent by client.send
    sent_range, \* the Range header put on the upstream request
    upstream,   \* the upstream connection: "none", "open", "closed"
    pipes,      \* which of the two named pipes exist on the filesystem
    proc,       \* state of the three processes of the mux session
    ffout,      \* chunks the muxer has written to its stdout, oldest first
    nread,      \* number of chunks the relay has read from the muxer's stdout
    sent,       \* chunks yielded to the client, oldest first
    ended,      \* how the request ended ("" while it has not)
    raw,        \* the info document of one extraction
    catalog,    \* the formats _sync_extract_info returned for it, once built
    info_call,  \* the one /api/info request: what the engine did, the response
    now,        \* time.monotonic(), in seconds
    requests,   \* RateLimitMiddleware._requests: client key -> admitted times
    last_cleanup, \* RateLimitMiddleware._last_cleanup
    in_flight,  \* per client key: requests that arrived and await the limiter
    decision,   \* what _is_rate_limited returned last, and how many calls it had
    admitted,   \* per client key: the times of every request ever admitted
    sanitized,  \* one call of _sanitize_filename: its argument and its result
    pool        \* the calls of extract_video_info and their tasks in _executor

vars == <<pc, req, resp, net_calls, sent_range, upstream, pipes, proc,
          ffout, nread, sent, ended, raw, catalog, info_call,
          now, requests, last_cleanup, in_flight, decision, admitted,
          sanitized, pool>>

downloadVars == <<pc, req, resp, net_calls, sent_range, upstream, pipes, proc,
                  ffout, nread, sent, ended>>

catalogVars == <<raw, catalog, info_call>>

limiterVars == <<now, requests, last_cleanup, in_flight, decision, admitted>>

unitVars == <<sanitized, pool>>

None == "None"

(***************************************************************************)
(* Bounds.                                                                 *)
(***************************************************************************)
\* chunks the muxer may write in one session
MaxChunks == 2
\* raw stream descriptors in one info document
MaxFormats == 3
\* raw stream descriptors in the info document of the /api/info request
MaxInfoFormats == 2

(***************************************************************************)
(* Character sequences.                                                    *)
(***************************************************************************)
RECURSIVE StartsWith(_, _)
\* str.startswith
StartsWith(s, p) ==
    IF p = <<>> THEN TRUE
    ELSE IF s = <<>> THEN FALSE
    ELSE Head(s) = Head(p) /\ StartsWith(Tail(s), Tail(p))

\* str.lower on one character
LowerChar(c) ==
    CASE c = "A" -> "a" [] c = "B" -> "b" [] c = "C" -> "c" [] c = "D" -> "d"
      [] c = "E" -> "e" [] c = "F" -> "f" [] c = "G" -> "g" [] c = "H" -> "h"
      [] c = "I" -> "i" [] c = "J" -> "j" [] c = "K" -> "k" [] c = "L" -> "l"
      [] c = "M" -> "m" [] c = "N" -> "n" [] c = "O" -> "o" [] c = "P" -> "p"
      [] c = "Q" -> "q" [] c = "R" -> "r" [] c = "S" -> "s" [] c = "T" -> "t"
      [] c = "U" -> "u" [] c = "V" -> "v" [] c = "W" -> "w" [] c = "X" -> "x"
      [] c = "Y" -> "y" [] c = "Z" -> "z"
      [] OTHER -> c

Lower(s) == [i \in 1..Len(s) |-> LowerChar(s[i])]

\* the index of the first occurrence of character c in s, 0 when there is none
RECURSIVE FindFrom(_, _, _)
FindFrom(s, c, i) ==
    IF i > Len(s) THEN 0
    ELSE IF s[i] = c THEN i
    ELSE FindFrom(s, c, i + 1)

Find(s, c) == FindFrom(s, c, 1)

\* str.split(c, 1): at most one split, at the first occurrence of c
Split1(s, c) ==
    LET i == Find(s, c)
    IN  IF i = 0 THEN <<s>>
        ELSE <<SubSeq(s, 1, i - 1), SubSeq(s, i + 1, Len(s))>>

\* str.split(c): a split at every occurrence of c
RECURSIVE SplitAll(_, _)
SplitAll(s, c) ==
    LET i == Find(s, c)
    IN  IF i = 0 THEN <<s>>
        ELSE <<SubSeq(s, 1, i - 1)>> \o SplitAll(SubSeq(s, i + 1, Len(s)), c)

\* the character a percent escape stands for (None: not an escape that is modelled)
EscapeChar(h1, h2) ==
    CASE h1 = "3" /\ h2 = "A" -> ":"
      [] h1 = "2" /\ h2 = "B" -> "+"
      [] h1 = "2" /\ h2 = "F" -> "/"
      [] h1 = "2" /\ h2 = "5" -> "%"
      [] OTHER -> None

\* urllib.parse.unquote: every %XX escape replaced by its character, in one pass
RECURSIVE Unquote(_)
Unquote(s) ==
    IF s = <<>> THEN <<>>
    ELSE IF Head(s) = "%" /\ Len(s) >= 3 /\ EscapeChar(s[2], s[3]) # None
         THEN <<EscapeChar(s[2], s[3])>> \o Unquote(SubSeq(s, 4, Len(s)))
         ELSE <<Head(s)>> \o Unquote(Tail(s))

(***************************************************************************)
(* The requests that are modelled: a scheme part and a rest.               *)
(***************************************************************************)
UrlHeads ==
    { <<"h","t","t","p",":","/","/">>,
      <<"h","t","t","p","s",":","/","/">>,
      <<"H","T","T","P",":","/","/">>,
      <<"h","t","t","p","s","%","3","A","/","/">>,
      <<"m","e","r","g","e",":">>,
      <<"M","E","R","G","E",":">>,
      <<"m","e","r","g","e","%","3","A">>,
      <<"f","t","p",":","/","/">>,
      <<"h","t","t","p",":","/">>,
      <<"h","t","t","p">>,
      <<"/">>,
      <<>> }

UrlRests ==
    { <<"x",".","c","o","/","v">>,
      <<"1","+","2",":","w">>,
      <<"1","%","2","B","2",":","w">>,
      <<"1","+","2",":","h","t","t","p",":","/","/","w">>,
      <<"1","+","2","/","w","w">>,
      <<"1","2",":","w","w">>,
      <<"1","+","2","+","3",":","w">> }

Urls == { h \o r : h \in UrlHeads, r \in UrlRests }

NoHeader == "NoHeader"
Ranges == { NoHeader, "bytes=0-99" }

\* what the upstream server of a direct URL does when it is asked
NoUpstream == [kind |-> "none", status |-> 0, content_range |-> NoHeader]
Upstreams ==
    { [kind |-> "response", status |-> 200, content_range |-> NoHeader],
      [kind |-> "response", status |-> 206, content_range |-> "bytes 0-99/200"],
      [kind |-> "response", status |-> 404, content_range |-> NoHeader],
      [kind |-> "response", status |-> 503, content_range |-> NoHeader],
      [kind |-> "timeout", status |-> 0, content_range |-> NoHeader],
      [kind |-> "io_error", status |-> 0, content_range |-> NoHeader] }

NoReq == [url |-> <<>>, range |-> NoHeader, up |-> NoUpstream]
NoResp == [status |-> 0, body |-> "none", error_type |-> None,
           content_range |-> NoHeader]

\* JSONResponse(status_code, content=ErrorResponse(error_type).model_dump())
ErrorResponse(status, error_type) ==
    [status |-> status, body |-> "envelope", error_type |-> error_type,
     content_range |-> NoHeader]

\* JSONResponse(status_code, content={"error": ...}): a dict without error_type
BareError(status) ==
    [status |-> status, body |-> "bare_error", error_type |-> None,
     content_range |-> NoHeader]

\* StreamingResponse(status_code, headers)
StreamingResponse(status, content_range) ==
    [status |-> status, body |-> "stream", error_type |-> None,
     content_range |-> content_range]


(***************************************************************************)
(* download_proxy (main.py 149-297).                                       *)
(***************************************************************************)
S_http == <<"h","t","t","p",":","/","/">>
S_https == <<"h","t","t","p","s",":","/","/">>
S_merge == <<"m","e","r","g","e",":">>

\* Query(..., min_length=5): the framework calls the handler only with such a url
ValidQuery(url) == Len(url) >= 5

\* the scheme test without the "//" and ":" that end the schemes
MatchesSchemeLoose(decoded_url) ==
    LET l == Lower(decoded_url)
    IN  StartsWith(l, <<"h","t","t","p">>) \/ StartsWith(l, <<"m","e","r","g","e">>)

\* re.match(r"^(https?://|merge:)", decoded_url, re.IGNORECASE)
MatchesScheme(decoded_url) ==
    LET l == Lower(decoded_url)
    IN  StartsWith(l, S_http) \/ StartsWith(l, S_https) \/ StartsWith(l, S_merge)

\* decoded_url.startswith("merge:")
IsMergeUrl(decoded_url) == StartsWith(decoded_url, S_merge)

\* the request is one the standard proxy logic handles: only such a request
\* names an upstream server
IsDirectTarget(url) ==
    MatchesScheme(Unquote(url)) /\ ~IsMergeUrl(Unquote(url))

\* Whether the name `client` is bound when line 209 reads client.is_closed.
\* download_proxy assigns client (line 210), which makes it a local variable of
\* the function; the module defines no client and nothing binds the local
\* before line 209, so the read raises UnboundLocalError.
ClientBound == FALSE

\* upstream_headers["Range"]: set only when the Range header is present
UpstreamRange(range_header) == range_header

\* Lines 207-297: the standard proxy logic and the handlers around it.  The
\* result names the response and what happened to the upstream connection.
DirectProxy(range_header, up) ==
    IF ~ClientBound
    THEN \* UnboundLocalError at line 209, caught by `except Exception` (289)
         [resp |-> ErrorResponse(500, "server_error"), calls |-> 0,
          sent_range |-> NoHeader, upstream |-> "none", pc |-> "done"]
    ELSE IF up.kind = "timeout"
    THEN [resp |-> ErrorResponse(504, "timeout"), calls |-> 1,
          sent_range |-> UpstreamRange(range_header), upstream |-> "none",
          pc |-> "done"]
    ELSE IF up.kind = "io_error"
    THEN [resp |-> ErrorResponse(502, "upstream_error"), calls |-> 1,
          sent_range |-> UpstreamRange(range_header), upstream |-> "none",
          pc |-> "done"]
    ELSE IF up.status >= 400
    THEN [resp |-> ErrorResponse(502, "upstream_error"), calls |-> 1,
          sent_range |-> UpstreamRange(range_header), upstream |-> "closed",
          pc |-> "done"]
    ELSE [resp |-> StreamingResponse(up.status, up.content_range), calls |-> 1,
          sent_range |-> UpstreamRange(range_header), upstream |-> "open",
          pc |-> "direct_stream"]

\* decoded_url[6:].split(":", 1)
MergeParts(decoded_url) == Split1(SubSeq(decoded_url, 7, Len(decoded_url)), ":")

\* format_ids.split("+") unpacks into exactly (vid_id, aud_id)
FormatIdsParse(format_ids) == Len(SplitAll(format_ids, "+")) = 2

Procs == {"ffmpeg", "aud", "vid"}

\* poll() is None
Alive(ps, p) == ps[p] \in {"running", "signalled"}

\* wait() returns
Terminal(ps, p) == ps[p] \in {"exited", "killed"}

\* a handler that forgets to kill: the processes stay as they are
KillNothing(ps, P) == ps

\* Popen.kill() on each process of P
Kill(ps, P) ==
    [p \in Procs |-> IF p \in P /\ Alive(ps, p) THEN "killed" ELSE ps[p]]

\* `if x.poll() is None: x.terminate()` on each process of P
TerminateIfRunning(ps, P) ==
    [p \in Procs |-> IF p \in P /\ Alive(ps, p) THEN "signalled" ELSE ps[p]]

NoPipes == [vid |-> FALSE, aud |-> FALSE]

\* a finally block that terminates the muxer and forgets the producers
FinallyProcsMuxerOnly(ps) == TerminateIfRunning(ps, {"ffmpeg"})

\* the finally block of stream_cleanup_gen (454-462): the processes it signals
FinallyProcs(ps) == TerminateIfRunning(ps, Procs)

\* the finally block of stream_cleanup_gen (454-462): the pipes it leaves
FinallyPipes(pp) == [k \in DOMAIN pp |-> FALSE]

\* the request returns r and ends in way `how`
Return(r, how) ==
    /\ resp' = r
    /\ pc' = "done"
    /\ ended' = how

\* GET /api/download: the handler up to its first return or, for a merge
\* reference with two format ids, up to the creation of the pipes.
DownloadProxy(url, range_header, up) ==
    /\ pc = "idle"
    /\ ValidQuery(url)
    /\ (up = NoUpstream) <=> ~IsDirectTarget(url)
    /\ req' = [url |-> url, range |-> range_header, up |-> up]
    /\ LET decoded_url == Unquote(url)
       IN  IF ~MatchesScheme(decoded_url)
           THEN /\ Return(ErrorResponse(400, "invalid_url"), "invalid_url")
                /\ UNCHANGED <<net_calls, sent_range, upstream>>
           ELSE IF IsMergeUrl(decoded_url)
           THEN /\ UNCHANGED <<net_calls, sent_range, upstream>>
                /\ IF Len(MergeParts(decoded_url)) < 2
                   THEN \* IndexError at line 195, caught at 197
                        Return(ErrorResponse(400, "invalid_url"), "bad_merge_url")
                   ELSE IF ~FormatIdsParse(MergeParts(decoded_url)[1])
                   THEN Return(BareError(400), "bad_format_ids")
                   ELSE /\ pc' = "create_pipes"
                        /\ UNCHANGED <<resp, ended>>
           ELSE LET d == DirectProxy(range_header, up)
                IN  /\ resp' = d.resp
                    /\ pc' = d.pc
                    /\ ended' = IF d.pc = "done" THEN "direct_error" ELSE ""
                    /\ net_calls' = net_calls + d.calls
                    /\ sent_range' = d.sent_range
                    /\ upstream' = d.upstream
    /\ UNCHANGED <<pipes, proc, ffout, nread, sent>>

(***************************************************************************)
(* stream_ffmpeg_merge (main.py 349-471), one action per step that the     *)
(* operating system can answer differently.                                *)
(***************************************************************************)
\* os.mkfifo without its own `except OSError`: the error reaches the handler
\* at line 197 of download_proxy, which answers 400 invalid_url
CreatePipesUnguarded(outcome) ==
    /\ pc = "create_pipes"
    /\ CASE outcome = "ok" ->
              /\ pipes' = [vid |-> TRUE, aud |-> TRUE]
              /\ pc' = "locate"
              /\ UNCHANGED <<resp, ended>>
         [] outcome = "vid_fails" ->
              /\ UNCHANGED pipes
              /\ Return(ErrorResponse(400, "invalid_url"), "pipe_failed")
         [] outcome = "aud_fails" ->
              /\ pipes' = [vid |-> TRUE, aud |-> FALSE]
              /\ Return(ErrorResponse(400, "invalid_url"), "pipe_failed")
    /\ UNCHANGED <<req, net_calls, sent_range, upstream, proc, ffout, nread, sent>>

\* os.mkfifo of the two pipes (363-376)
CreatePipes(outcome) ==
    /\ pc = "create_pipes"
    /\ CASE outcome = "ok" ->
              /\ pipes' = [vid |-> TRUE, aud |-> TRUE]
              /\ pc' = "locate"
              /\ UNCHANGED <<resp, ended>>
         [] outcome = "vid_fails" ->
              /\ UNCHANGED pipes
              /\ Return(BareError(500), "pipe_failed")
         [] outcome = "aud_fails" ->
              /\ pipes' = [vid |-> TRUE, aud |-> FALSE]
              /\ Return(BareError(500), "pipe_failed")
    /\ UNCHANGED <<req, net_calls, sent_range, upstream, proc, ffout, nread, sent>>

\* a session that goes from the pipes to the muxer, past the producers
LocateMuxerSkipsProducers(found) ==
    /\ pc = "locate"
    /\ IF found
       THEN pc' = "start_muxer" /\ UNCHANGED <<resp, ended>>
       ELSE Return(BareError(500), "no_muxer")
    /\ UNCHANGED <<req, net_calls, sent_range, upstream, pipes, proc, ffout,
                   nread, sent>>

\* shutil.which("ffmpeg") (378-387)
LocateMuxer(found) ==
    /\ pc = "locate"
    /\ IF found
       THEN pc' = "start_audio" /\ UNCHANGED <<resp, ended>>
       ELSE Return(BareError(500), "no_muxer")
    /\ UNCHANGED <<req, net_calls, sent_range, upstream, pipes, proc, ffout,
                   nread, sent>>

\* Popen of a producer (389-396).  A failed launch raises out of
\* stream_ffmpeg_merge into the handler at line 197 of download_proxy.
StartProducer(p, at, next, ok) ==
    /\ pc = at
    /\ IF ok
       THEN /\ proc' = [proc EXCEPT ![p] = "running"]
            /\ pc' = next
            /\ UNCHANGED <<resp, ended>>
       ELSE /\ UNCHANGED proc
            /\ Return(ErrorResponse(400, "invalid_url"), "launch_failed")
    /\ UNCHANGED <<req, net_calls, sent_range, upstream, pipes, ffout, nread, sent>>

StartAudio(ok) == StartProducer("aud", "start_audio", "start_video", ok)

StartVideo(ok) == StartProducer("vid", "start_video", "start_muxer", ok)

\* Popen of the muxer and the return of the StreamingResponse (398-425, 464-471)
StartMuxer(ok) ==
    /\ pc = "start_muxer"
    /\ IF ok
       THEN /\ proc' = [proc EXCEPT !["ffmpeg"] = "running"]
            /\ resp' = StreamingResponse(200, NoHeader)
            /\ pc' = "gen_unstarted"
            /\ UNCHANGED ended
       ELSE /\ proc' = Kill(proc, {"aud", "vid"})
            /\ Return(BareError(500), "muxer_failed")
    /\ UNCHANGED <<req, net_calls, sent_range, upstream, pipes, ffout, nread, sent>>

(***************************************************************************)
(* stream_cleanup_gen (main.py 427-462), the relay generator.  It is       *)
(* suspended at the await of the read ("relay_read") or at the yield       *)
(* ("relay_yield"); the waits after the loop are blocking calls.           *)
(***************************************************************************)
relayVars == <<req, resp, net_calls, sent_range, upstream>>

\* the server starts to iterate the body: the generator runs to its first await
GenStart ==
    /\ pc = "gen_unstarted"
    /\ pc' = "relay_read"
    /\ UNCHANGED <<relayVars, pipes, proc, ffout, nread, sent, ended>>

\* a relay that puts the chunk it read before the ones it has yielded
ReadChunkNewestFirst ==
    /\ pc = "relay_read"
    /\ nread < Len(ffout)
    /\ nread' = nread + 1
    /\ sent' = <<ffout[nread + 1]>> \o sent
    /\ pc' = "relay_yield"
    /\ UNCHANGED <<relayVars, pipes, proc, ffout, ended>>

\* the read returns a chunk, which the generator yields (431-436)
ReadChunk ==
    /\ pc = "relay_read"
    /\ nread < Len(ffout)
    /\ nread' = nread + 1
    /\ sent' = Append(sent, ffout[nread + 1])
    /\ pc' = "relay_yield"
    /\ UNCHANGED <<relayVars, pipes, proc, ffout, ended>>

\* the consumer asks for the next chunk: the generator resumes after the yield
Resume ==
    /\ pc = "relay_yield"
    /\ pc' = "relay_read"
    /\ UNCHANGED <<relayVars, pipes, proc, ffout, nread, sent, ended>>

\* the read returns b"" (the muxer's stdout is at end of file): break (434-435)
ReadEof ==
    /\ pc = "relay_read"
    /\ nread = Len(ffout)
    /\ Terminal(proc, "ffmpeg")
    /\ pc' = "wait_ffmpeg"
    /\ UNCHANGED <<relayVars, pipes, proc, ffout, nread, sent, ended>>

\* ffmpeg_process.wait() (439)
WaitMuxer ==
    /\ pc = "wait_ffmpeg"
    /\ Terminal(proc, "ffmpeg")
    /\ pc' = "wait_aud"
    /\ UNCHANGED <<relayVars, pipes, proc, ffout, nread, sent, ended>>

\* aud_process.wait() (440)
WaitAudio ==
    /\ pc = "wait_aud"
    /\ Terminal(proc, "aud")
    /\ pc' = "wait_vid"
    /\ UNCHANGED <<relayVars, pipes, proc, ffout, nread, sent, ended>>

\* vid_process.wait() (441), the check of the return code, and the finally block
WaitVideo ==
    /\ pc = "wait_vid"
    /\ Terminal(proc, "vid")
    /\ proc' = FinallyProcs(proc)
    /\ pipes' = FinallyPipes(pipes)
    /\ pc' = "done"
    /\ ended' = "completed"
    /\ UNCHANGED <<relayVars, ffout, nread, sent>>

\* the read raises an Exception: the except block kills the three processes,
\* then the finally block runs (449-462)
RelayRaises ==
    /\ pc = "relay_read"
    /\ proc' = FinallyProcs(Kill(proc, Procs))
    /\ pipes' = FinallyPipes(pipes)
    /\ pc' = "done"
    /\ ended' = "failed"
    /\ UNCHANGED <<relayVars, ffout, nread, sent>>

\* the client disconnects while the generator is suspended in the loop: a
\* CancelledError at the await or a GeneratorExit at the yield, neither an
\* Exception, so only the finally block runs
Disconnect ==
    /\ pc \in {"relay_read", "relay_yield"}
    /\ proc' = FinallyProcs(proc)
    /\ pipes' = FinallyPipes(pipes)
    /\ pc' = "done"
    /\ ended' = "cancelled"
    /\ UNCHANGED <<relayVars, ffout, nread, sent>>

\* the client disconnects before the server has started the generator: closing
\* a generator that never ran executes none of its body, the finally included
DisconnectUnstarted ==
    /\ pc = "gen_unstarted"
    /\ pc' = "done"
    /\ ended' = "cancelled_unstarted"
    /\ UNCHANGED <<relayVars, pipes, proc, ffout, nread, sent>>

(***************************************************************************)
(* The processes, which run on their own.                                  *)
(***************************************************************************)
\* the muxer writes a chunk to its stdout
MuxerWrites ==
    /\ Alive(proc, "ffmpeg")
    /\ Len(ffout) < MaxChunks
    /\ ffout' = Append(ffout, Len(ffout) + 1)
    /\ UNCHANGED <<pc, relayVars, pipes, proc, nread, sent, ended>>

\* a running process exits by itself (it finished, or it failed)
ProcExits(p) ==
    /\ proc[p] = "running"
    /\ proc' = [proc EXCEPT ![p] = "exited"]
    /\ UNCHANGED <<pc, relayVars, pipes, ffout, nread, sent, ended>>

\* a process that was sent SIGTERM by terminate() exits
SignalTakesEffect(p) ==
    /\ proc[p] = "signalled"
    /\ proc' = [proc EXCEPT ![p] = "exited"]
    /\ UNCHANGED <<pc, relayVars, pipes, ffout, nread, sent, ended>>

(***************************************************************************)
(* _sanitize_filename (main.py 138-146).  Names are strings.               *)
(***************************************************************************)
\* length of the short names that are tried
MaxNameLen == 3

\* the characters of the class [<>:"/\\|?*\x00-\x1f]; the tab stands for the
\* control characters
UnsafeChars == {"<", ">", ":", "\"", "/", "\\", "|", "?", "*", "\t"}

\* re.sub(r'[<>:"/\\|?*\x00-\x1f]', "_", name)
RECURSIVE SubUnsafe(_)
SubUnsafe(name) ==
    IF name = "" THEN ""
    ELSE IF Len(name) = 1 THEN (IF name \in UnsafeChars THEN "_" ELSE name)
    ELSE LET half == Len(name) \div 2
         IN  SubUnsafe(SubSeq(name, 1, half))
             \o SubUnsafe(SubSeq(name, half + 1, Len(name)))

RECURSIVE LStrip(_)
LStrip(name) ==
    IF name # "" /\ SubSeq(name, 1, 1) \in {".", " "}
    THEN LStrip(SubSeq(name, 2, Len(name))) ELSE name

RECURSIVE RStrip(_)
RStrip(name) ==
    IF name # "" /\ SubSeq(name, Len(name), Len(name)) \in {".", " "}
    THEN RStrip(SubSeq(name, 1, Len(name) - 1)) ELSE name

\* name.strip(". ")
Strip(name) == RStrip(LStrip(name))

\* a cut that is forgotten
CutKeepsAll(name) == name

\* `if len(name) > 200: name = name[:200]`
Cut(name) == IF Len(name) > 200 THEN SubSeq(name, 1, 200) ELSE name

\* _sanitize_filename
SanitizeFilename(name) ==
    LET stripped == Strip(SubUnsafe(name))
    IN  Cut(IF stripped = "" THEN "download" ELSE stripped)

\* s repeated n times
RECURSIVE Repeat(_, _)
Repeat(s, n) ==
    IF n = 0 THEN ""
    ELSE IF n % 2 = 1 THEN s \o Repeat(s, n - 1)
    ELSE LET half == Repeat(s, n \div 2) IN half \o half

NameChars == {"a", "/", ".", " ", ":", "\t"}

\* every string of at most n of the characters
RECURSIVE ShortNames(_)
ShortNames(n) ==
    IF n = 0 THEN {""}
    ELSE LET shorter == ShortNames(n - 1)
         IN  shorter \cup { x \o c : x \in shorter, c \in NameChars }

\* the names _sanitize_filename is called with
Names ==
    ShortNames(MaxNameLen)
    \cup {"a/b:c*d", " .name. ", "a<b>c\"d\\e|f?g", Repeat("a", 300),
          Repeat("a", 200), Repeat("a", 201), " ." \o Repeat("b", 210) \o ". ",
          Repeat("a", 199) \o "/x", Repeat("a", 199) \o ". .", Repeat(".", 40), Repeat(". ", 20) \o Repeat("a", 240) \o Repeat(" .", 20)}

NoName == [called |-> FALSE, given |-> "", result |-> ""]

InitSanitize == sanitized = NoName

\* download_proxy computes the file name of the download (line 174)
Sanitize(name) ==
    /\ ~sanitized.called
    /\ sanitized' = [called |-> TRUE, given |-> name,
                     result |-> SanitizeFilename(name)]

(***************************************************************************)
(* extract_video_info (services/downloader.py 390-401) over _executor, a   *)
(* ThreadPoolExecutor of 4 workers.  A task that runs may never return.    *)
(* The event loop fires a due timer before it lets time pass it.           *)
(***************************************************************************)
\* ThreadPoolExecutor(max_workers=4)
max_workers == 4
\* settings.INFO_TIMEOUT
INFO_TIMEOUT == 30
\* the calls of extract_video_info in one behaviour
MaxCalls == 5
\* the clock of the pool stops here
MaxPoolTime == 45

PoolTickSteps == {15, 30}

Calls == 1..Len(pool.calls)

Running(calls) == { i \in 1..Len(calls) : calls[i].task = "running" }

Queued(calls) == { i \in 1..Len(calls) : calls[i].task = "queued" }

\* a timer that is armed only once a worker has taken the task
TimerArmedOnceStarted(call) == call.caller = "waiting" /\ call.task # "queued"

\* wait_for arms its timer when the call is made, whatever the task does
TimerArmed(call) == call.caller = "waiting"

InitPool == pool = [clock |-> 0, calls |-> <<>>]

\* extract_video_info is called: run_in_executor submits the task, which a
\* free worker takes at once and which waits in the queue otherwise (392-395)
ExtractCall ==
    /\ Len(pool.calls) < MaxCalls
    /\ pool' = [pool EXCEPT !.calls =
                   Append(@, [made_at |-> pool.clock, caller |-> "waiting",
                              task |-> IF Cardinality(Running(pool.calls)) < max_workers
                                       THEN "running" ELSE "queued",
                              done_at |-> -1])]

\* _sync_extract_info returns in its worker: a caller that still waits gets
\* the result, and the worker takes the oldest task of the queue
TaskReturns(i) ==
    /\ i \in Calls
    /\ pool.calls[i].task = "running"
    /\ LET q == Queued(pool.calls)
           next == IF q = {} THEN 0 ELSE CHOOSE j \in q : \A k \in q : j <= k
       IN  pool' = [pool EXCEPT !.calls =
              [j \in 1..Len(pool.calls) |->
                 IF j = i
                 THEN [pool.calls[i] EXCEPT
                          !.task = "finished",
                          !.caller = IF @ = "waiting" THEN "returned" ELSE @,
                          !.done_at = IF pool.calls[i].caller = "waiting"
                                      THEN pool.clock ELSE @]
                 ELSE IF j = next THEN [pool.calls[j] EXCEPT !.task = "running"]
                 ELSE pool.calls[j]]]

\* the timer of wait_for fires: the caller gets asyncio.TimeoutError, which
\* extract_video_info raises as ValueError (397-401); a task still in the
\* queue is cancelled, a running one goes on in its worker
TimeoutFires(i) ==
    /\ i \in Calls
    /\ TimerArmed(pool.calls[i])
    /\ pool.clock >= pool.calls[i].made_at + INFO_TIMEOUT
    /\ pool' = [pool EXCEPT !.calls[i] =
                   [@ EXCEPT !.caller = "timed_out",
                             !.done_at = pool.clock,
                             !.task = IF @ = "queued" THEN "cancelled" ELSE @]]

\* time passes, up to the next armed timer at most
PoolTick(d) ==
    /\ pool.clock + d <= MaxPoolTime
    /\ \A i \in Calls :
          TimerArmed(pool.calls[i]) =>
              pool.clock + d <= pool.calls[i].made_at + INFO_TIMEOUT
    /\ pool' = [pool EXCEPT !.clock = @ + d]

(***************************************************************************)
(* RateLimitMiddleware (middleware/rate_limit.py).  Times are whole        *)
(* seconds of time.monotonic().  _is_rate_limited is a plain function      *)
(* called from dispatch on the event loop: it holds no await, so no other  *)
(* request runs between its read of _requests and its write.  Requests     *)
(* interleave before it (they arrive and wait for the loop) and after it.  *)
(***************************************************************************)
\* self.window (18)
window == 60
\* self._cleanup_interval (21)
cleanup_interval == 300
\* self.rpm = settings.RATE_LIMIT_RPM, a setting of the deployment
rpm == 1
\* requests to /api/ paths that arrive in one behaviour
MaxRequests == 3
\* the clock stops here
MaxTime == 320

\* the keys _get_client_ip returns
Clients == {"ip1", "ip2"}

\* by how much the clock moves between two events
TickSteps == {20, 60, 240}

\* defaultdict(list): a key that is absent reads as the empty list
Get(d, k) == IF k \in DOMAIN d THEN d[k] ELSE <<>>

\* d[k] = v
Put(d, k, v) == [x \in DOMAIN d \cup {k} |-> IF x = k THEN v ELSE d[x]]

\* _cleanup_stale (34-43): the dict without its stale keys, when it is due
CleanupStale(d, t, last) ==
    IF t - last < cleanup_interval THEN d
    ELSE LET stale_keys == { k \in DOMAIN d :
                               d[k] = <<>> \/ d[k][Len(d[k])] < t - window }
         IN  [x \in DOMAIN d \ stale_keys |-> d[x]]

\* the loop at 53-54: expired timestamps popped from the front
RECURSIVE PopExpired(_, _)
PopExpired(timestamps, cutoff) ==
    IF timestamps # <<>> /\ Head(timestamps) < cutoff
    THEN PopExpired(Tail(timestamps), cutoff)
    ELSE timestamps

\* a limit test that lets one request too many through
IsLimitedOffByOne(timestamps) == Len(timestamps) > rpm

\* len(timestamps) >= self.rpm (56)
IsLimited(timestamps) == Len(timestamps) >= rpm

\* a limiter that records the request before it tests the limit
RecordedAlways(timestamps, limited, t) == Append(timestamps, t)

\* the list after 56-60: the time is appended only to an admitted request
Recorded(timestamps, limited, t) ==
    IF limited THEN timestamps ELSE Append(timestamps, t)

\* the second element of the returned tuple: retry_after, or remaining
Returned(timestamps, limited, cutoff) ==
    IF limited
    THEN LET retry_after == (timestamps[1] - cutoff) + 1
         IN  IF retry_after > 1 THEN retry_after ELSE 1
    ELSE rpm - Len(timestamps)

NoDecision == [calls |-> 0, client |-> "", limited |-> FALSE, value |-> 0]

InitLimiter ==
    /\ now = 0
    /\ requests = [k \in {} |-> <<>>]
    /\ last_cleanup = 0
    /\ in_flight = [c \in Clients |-> 0]
    /\ decision = NoDecision
    /\ admitted = [c \in Clients |-> <<>>]

\* a request to an /api/ path arrives: dispatch is scheduled for it
Arrive(c) ==
    /\ decision.calls + in_flight["ip1"] + in_flight["ip2"] < MaxRequests
    /\ in_flight' = [in_flight EXCEPT ![c] = @ + 1]
    /\ UNCHANGED <<now, requests, last_cleanup, decision, admitted>>

\* dispatch runs _is_rate_limited for a waiting request (45-62, 76-77) and
\* answers 429 or calls the next handler
IsRateLimited(client_ip) ==
    /\ in_flight[client_ip] > 0
    /\ in_flight' = [in_flight EXCEPT ![client_ip] = @ - 1]
    /\ LET cleaned == CleanupStale(requests, now, last_cleanup)
           cutoff == now - window
           timestamps == PopExpired(Get(cleaned, client_ip), cutoff)
           limited == IsLimited(timestamps)
           kept == Recorded(timestamps, limited, now)
       IN  /\ last_cleanup' = IF now - last_cleanup < cleanup_interval
                              THEN last_cleanup ELSE now
           /\ requests' = Put(cleaned, client_ip, kept)
           /\ decision' = [calls |-> decision.calls + 1, client |-> client_ip,
                           limited |-> limited,
                           value |-> Returned(kept, limited, cutoff)]
           /\ admitted' = IF limited THEN admitted
                          ELSE [admitted EXCEPT ![client_ip] = Append(@, now)]
    /\ UNCHANGED now

\* time passes
Tick(d) ==
    /\ now + d <= MaxTime
    /\ now' = now + d
    /\ UNCHANGED <<requests, last_cleanup, in_flight, decision, admitted>>

(***************************************************************************)
(* The download endpoint: one request from its arrival to its end.         *)
(***************************************************************************)
NoCatalog == [built |-> FALSE, formats |-> <<>>]
NoInfo == [formats |-> <<>>, webpage_url |-> <<>>, url |-> <<>>]

\* no /api/info request has been answered
NoInfoCall == [outcome |-> "none", error_msg |-> "", resp |-> NoResp]

InitDownload ==
    /\ pc = "idle"
    /\ req = NoReq
    /\ resp = NoResp
    /\ net_calls = 0
    /\ sent_range = NoHeader
    /\ upstream = "none"
    /\ pipes = NoPipes
    /\ proc = [p \in Procs |-> "none"]
    /\ ffout = <<>>
    /\ nread = 0
    /\ sent = <<>>
    /\ ended = ""

Init ==
    /\ InitDownload
    /\ raw = NoInfo
    /\ catalog = NoCatalog
    /\ info_call = NoInfoCall
    /\ InitLimiter
    /\ InitSanitize
    /\ InitPool

Next ==
    \/ \E url \in Urls, r \in Ranges, up \in Upstreams \cup {NoUpstream} :
          DownloadProxy(url, r, up) /\ UNCHANGED <<catalogVars, limiterVars, unitVars>>
    \/ \E o \in {"ok", "vid_fails", "aud_fails"} :
          CreatePipes(o) /\ UNCHANGED <<catalogVars, limiterVars, unitVars>>
    \/ \E found \in BOOLEAN : LocateMuxer(found) /\ UNCHANGED <<catalogVars, limiterVars, unitVars>>
    \/ \E ok \in BOOLEAN : StartAudio(ok) /\ UNCHANGED <<catalogVars, limiterVars, unitVars>>
    \/ \E ok \in BOOLEAN : StartVideo(ok) /\ UNCHANGED <<catalogVars, limiterVars, unitVars>>
    \/ \E ok \in BOOLEAN : StartMuxer(ok) /\ UNCHANGED <<catalogVars, limiterVars, unitVars>>
    \/ GenStart /\ UNCHANGED <<catalogVars, limiterVars, unitVars>>
    \/ ReadChunk /\ UNCHANGED <<catalogVars, limiterVars, unitVars>>
    \/ Resume /\ UNCHANGED <<catalogVars, limiterVars, unitVars>>
    \/ ReadEof /\ UNCHANGED <<catalogVars, limiterVars, unitVars>>
    \/ WaitMuxer /\ UNCHANGED <<catalogVars, limiterVars, unitVars>>
    \/ WaitAudio /\ UNCHANGED <<catalogVars, limiterVars, unitVars>>
    \/ WaitVideo /\ UNCHANGED <<catalogVars, limiterVars, unitVars>>
    \/ RelayRaises /\ UNCHANGED <<catalogVars, limiterVars, unitVars>>
    \/ Disconnect /\ UNCHANGED <<catalogVars, limiterVars, unitVars>>
    \/ DisconnectUnstarted /\ UNCHANGED <<catalogVars, limiterVars, unitVars>>
    \/ MuxerWrites /\ UNCHANGED <<catalogVars, limiterVars, unitVars>>
    \/ \E p \in Procs : ProcExits(p) /\ UNCHANGED <<catalogVars, limiterVars, unitVars>>
    \/ \E p \in Procs : SignalTakesEffect(p) /\ UNCHANGED <<catalogVars, limiterVars, unitVars>>

Spec == Init /\ [][Next]_vars

\* SIGTERM is delivered: a process that terminate() signalled does exit
LiveSpec == Spec /\ \A p \in Procs : WF_vars(SignalTakesEffect(p) /\ UNCHANGED <<catalogVars, limiterVars, unitVars>>)

\* The relay runs whenever it can, the consumer asks for every chunk, the
\* muxer exits and signals are delivered; a producer may stay blocked on its
\* pipe and never exit.
RelaySpec ==
    /\ Spec
    /\ WF_vars(GenStart /\ UNCHANGED <<catalogVars, limiterVars, unitVars>>)
    /\ WF_vars(ReadChunk /\ UNCHANGED <<catalogVars, limiterVars, unitVars>>)
    /\ WF_vars(Resume /\ UNCHANGED <<catalogVars, limiterVars, unitVars>>)
    /\ WF_vars(ReadEof /\ UNCHANGED <<catalogVars, limiterVars, unitVars>>)
    /\ WF_vars(WaitMuxer /\ UNCHANGED <<catalogVars, limiterVars, unitVars>>)
    /\ WF_vars(WaitAudio /\ UNCHANGED <<catalogVars, limiterVars, unitVars>>)
    /\ WF_vars(WaitVideo /\ UNCHANGED <<catalogVars, limiterVars, unitVars>>)
    /\ WF_vars(ProcExits("ffmpeg") /\ UNCHANGED <<catalogVars, limiterVars, unitVars>>)
    /\ \A p \in Procs :
          WF_vars(SignalTakesEffect(p) /\ UNCHANGED <<catalogVars, limiterVars, unitVars>>)

(***************************************************************************)
(* The format catalog (services/downloader.py).  Bit rates are held in     *)
(* tenths of a kbps, so that int() truncates; heights and frame rates are  *)
(* whole numbers; a missing field is None.                                 *)
(***************************************************************************)
\* None in a field that holds a number (heights, rates are never negative)
NoNum == -1

\* `x or 0`
OrZero(x) == IF x = NoNum THEN 0 ELSE x

\* truth value of an optional number: neither None nor 0
Truthy(x) == x # NoNum /\ x # 0

\* int(x) of a bit rate
IntOf(x) == x \div 10

\* `f.get("vcodec") or "none"`
CodecOrNone(c) == IF c = None \/ c = "" THEN "none" ELSE c

\* ext.upper()
Upper(ext) ==
    CASE ext = "mp4" -> "MP4" [] ext = "m4a" -> "M4A" [] ext = "mp3" -> "MP3"
      [] ext = "webm" -> "WEBM" [] ext = "mhtml" -> "MHTML"
      [] OTHER -> ext

\* "storyboard" in vcodec.lower()
HasStoryboard(vcodec) == vcodec \in {"storyboard", "Storyboard"}

\* the height tiers of _get_quality_label (69-86)
HeightTier(height) ==
    IF height >= 2160 THEN "4K"
    ELSE IF height >= 1440 THEN "1440p"
    ELSE IF height >= 1080 THEN "1080p"
    ELSE IF height >= 720 THEN "720p"
    ELSE IF height >= 480 THEN "480p"
    ELSE IF height >= 360 THEN "360p"
    ELSE IF height >= 240 THEN "240p"
    ELSE IF height >= 144 THEN "144p"
    ELSE ToString(height) \o "p"

\* _get_quality_label (55-101)
GetQualityLabel(f) ==
    LET vcodec == CodecOrNone(f.vcodec)
        acodec == CodecOrNone(f.acodec)
        has_video == vcodec # "none" /\ f.height # NoNum
        has_audio == acodec # "none"
    IN  IF has_video
        THEN (IF f.height # NoNum THEN HeightTier(f.height) ELSE "Video")
             \o (IF Truthy(f.fps) /\ f.fps > 30
                 THEN " " \o ToString(f.fps) \o "fps" ELSE "")
        ELSE IF has_audio
        THEN IF Truthy(f.abr) THEN ToString(IntOf(f.abr)) \o "kbps"
             ELSE IF Truthy(f.tbr) THEN ToString(IntOf(f.tbr)) \o "kbps"
             ELSE "Audio"
        ELSE "Unknown"

\* _build_format_label (104-121)
BuildFormatLabel(f) ==
    LET has_video == CodecOrNone(f.vcodec) # "none"
        has_audio == CodecOrNone(f.acodec) # "none"
        quality == GetQualityLabel(f)
    IN  IF has_video /\ has_audio
        THEN quality \o " " \o Upper(f.ext) \o " (Video + Audio)"
        ELSE IF has_video
        THEN quality \o " " \o Upper(f.ext) \o " (Video Only)"
        ELSE IF has_audio
        THEN "Audio " \o Upper(f.ext) \o " (" \o quality \o ")"
        ELSE quality \o " " \o Upper(f.ext)

\* a sort key that forgets to negate the height: lower resolution first
SortKeyHeightAscending(fmt) ==
    LET category == IF fmt.has_video /\ fmt.has_audio THEN 0
                    ELSE IF fmt.has_video /\ ~fmt.has_audio THEN 1
                    ELSE 2
    IN  <<category, OrZero(fmt.height), -OrZero(fmt.tbr), -OrZero(fmt.abr)>>

\* _sort_key (124-142)
SortKey(fmt) ==
    LET category == IF fmt.has_video /\ fmt.has_audio THEN 0
                    ELSE IF fmt.has_video /\ ~fmt.has_audio THEN 1
                    ELSE 2
    IN  <<category, -OrZero(fmt.height), -OrZero(fmt.tbr), -OrZero(fmt.abr)>>

\* the order of Python tuples of numbers
RECURSIVE TupleLess(_, _)
TupleLess(a, b) ==
    IF a = <<>> \/ b = <<>> THEN a = <<>> /\ b # <<>>
    ELSE IF Head(a) < Head(b) THEN TRUE
    ELSE IF Head(a) > Head(b) THEN FALSE
    ELSE TupleLess(Tail(a), Tail(b))

\* x put into the sorted s behind every element whose key is not greater
RECURSIVE InsertByKey(_, _)
InsertByKey(x, s) ==
    IF s = <<>> THEN <<x>>
    ELSE IF TupleLess(x.k, Head(s).k) THEN <<x>> \o s
    ELSE <<Head(s)>> \o InsertByKey(x, Tail(s))

\* list.sort on [k: key, v: value] pairs: ascending by key, and stable
RECURSIVE StableSort(_)
StableSort(s) ==
    IF s = <<>> THEN <<>>
    ELSE InsertByKey(s[Len(s)], StableSort(SubSeq(s, 1, Len(s) - 1)))

Values(s) == [i \in 1..Len(s) |-> s[i].v]

\* formats.sort(key=_sort_key) (208)
SortFormats(formats) ==
    Values(StableSort([i \in 1..Len(formats) |->
                          [k |-> SortKey(formats[i]), v |-> formats[i]]]))

\* the url of a raw stream: `f.get("url") or f.get("manifest_url") or ""`
RawUrl(f) == IF f.url # <<>> THEN f.url ELSE f.manifest_url

\* the skip rules of _extract_formats (152-175)
Skipped(f) ==
    \/ RawUrl(f) = <<>>
    \/ f.protocol \in {"m3u8", "f4m", "f4f", "ism"}
    \/ f.ext \in {"mhtml", "json"}
    \/ HasStoryboard(CodecOrNone(f.vcodec))

\* dedup_key = f"{label}_{ext}"
DedupKey(f) == BuildFormatLabel(f) \o "_" \o f.ext

\* the defaults of the optional fields of FormatInfo (models.py 26-47)
FormatInfoDefaults ==
    [quality |-> "", extension |-> "mp4", is_audio |-> FALSE,
     is_video_only |-> FALSE, has_video |-> TRUE, has_audio |-> TRUE,
     height |-> NoNum, fps |-> NoNum, vcodec |-> None, acodec |-> None,
     tbr |-> NoNum, abr |-> NoNum, url |-> <<>>]

\* FormatInfo(**given): the fields given, the others at their defaults
FormatInfo(given) ==
    [k \in DOMAIN given \cup DOMAIN FormatInfoDefaults |->
        IF k \in DOMAIN given THEN given[k] ELSE FormatInfoDefaults[k]]

\* FormatInfo(...) of a raw stream (186-205)
NormalizedFormat(f) ==
    LET vcodec == CodecOrNone(f.vcodec)
        acodec == CodecOrNone(f.acodec)
        has_video == vcodec # "none"
        has_audio == acodec # "none"
    IN  FormatInfo(
        [format_id |-> f.format_id,
         label |-> BuildFormatLabel(f),
         quality |-> GetQualityLabel(f),
         extension |-> f.ext,
         is_audio |-> has_audio /\ ~has_video,
         is_video_only |-> has_video /\ ~has_audio,
         has_video |-> has_video,
         has_audio |-> has_audio,
         height |-> f.height,
         fps |-> f.fps,
         vcodec |-> IF vcodec # "none" THEN vcodec ELSE None,
         acodec |-> IF acodec # "none" THEN acodec ELSE None,
         tbr |-> f.tbr,
         abr |-> f.abr,
         url |-> RawUrl(f)])

\* the loop of _extract_formats (150-206) from raw stream i on: `formats` and
\* `seen_labels` are what the loop has built so far
RECURSIVE ExtractLoop(_, _, _, _)
ExtractLoop(raw_formats, i, formats, seen_labels) ==
    IF i > Len(raw_formats) THEN formats
    ELSE LET f == raw_formats[i]
         IN  IF Skipped(f) \/ DedupKey(f) \in seen_labels
             THEN ExtractLoop(raw_formats, i + 1, formats, seen_labels)
             ELSE ExtractLoop(raw_formats, i + 1,
                              Append(formats, NormalizedFormat(f)),
                              seen_labels \cup {DedupKey(f)})

\* _extract_formats (145-209)
ExtractFormats(info) == SortFormats(ExtractLoop(info.formats, 1, <<>>, {}))

\* x.sort(key=..., reverse=True): descending by key, equal keys in their order
SortDescending(keyed) ==
    Values(StableSort([i \in 1..Len(keyed) |->
                          [k |-> [j \in 1..Len(keyed[i].k) |-> -keyed[i].k[j]],
                           v |-> keyed[i].v]]))

\* video_only without the test of the format id
VideoOnlySortedAnyId(formats) ==
    LET IsCandidate(f) == f.is_video_only
        c == SelectSeq(formats, IsCandidate)
    IN  SortDescending([i \in 1..Len(c) |->
                           [k |-> <<OrZero(c[i].height), OrZero(c[i].tbr)>>,
                            v |-> c[i]]])

\* video_only after its sort (230, 235)
VideoOnlySorted(formats) ==
    LET IsCandidate(f) == f.is_video_only /\ f.format_id # <<>>
        c == SelectSeq(formats, IsCandidate)
    IN  SortDescending([i \in 1..Len(c) |->
                           [k |-> <<OrZero(c[i].height), OrZero(c[i].tbr)>>,
                            v |-> c[i]]])

\* audio_only sorted without reverse=True
AudioOnlySortedAscending(formats) ==
    LET IsCandidate(f) == f.is_audio /\ f.format_id # <<>>
        c == SelectSeq(formats, IsCandidate)
    IN  Values(StableSort([i \in 1..Len(c) |->
                              [k |-> <<OrZero(c[i].abr)>>, v |-> c[i]]]))

\* audio_only after its sort (231, 237)
AudioOnlySorted(formats) ==
    LET IsCandidate(f) == f.is_audio /\ f.format_id # <<>>
        c == SelectSeq(formats, IsCandidate)
    IN  SortDescending([i \in 1..Len(c) |->
                           [k |-> <<OrZero(c[i].abr)>>, v |-> c[i]]])

\* best_url = info.get("webpage_url") or info.get("url")
BestUrl(info) == IF info.webpage_url # <<>> THEN info.webpage_url ELSE info.url

\* f"merge:{best_video.format_id}+{best_audio.format_id}:{best_url}"
MergeUrl(video_id, audio_id, best_url) ==
    S_merge \o video_id \o <<"+">> \o audio_id \o <<":">> \o best_url

NoMerge == [parsed |-> FALSE, vid_id |-> <<>>, aud_id |-> <<>>, webpage_url |-> <<>>]

\* what the download endpoint makes of a merge reference: download_proxy
\* unquotes the url and splits it after "merge:" at the first colon (main.py
\* 163, 190-196), stream_ffmpeg_merge splits the ids at "+" (357-361)
ParseMergeUrl(url) ==
    LET decoded_url == Unquote(url)
        parts == MergeParts(decoded_url)
        ids == SplitAll(parts[1], "+")
    IN  IF ~IsMergeUrl(decoded_url) THEN NoMerge
        ELSE IF Len(parts) < 2 THEN NoMerge
        ELSE IF Len(ids) # 2 THEN NoMerge
        ELSE [parsed |-> TRUE, vid_id |-> ids[1], aud_id |-> ids[2],
              webpage_url |-> parts[2]]

\* the quality of the merged entry (258-267)
BestQuality(best_height) ==
    IF Truthy(best_height)
    THEN IF best_height >= 2160 THEN "4K"
         ELSE IF best_height >= 1440 THEN "1440p"
         ELSE IF best_height >= 1080 THEN "1080p"
         ELSE IF best_height >= 720 THEN "720p"
         ELSE "Best"
    ELSE "Best"

\* _add_best_merged_format (212-282)
AddBestMergedFormat(info, formats) ==
    LET best_url == BestUrl(info)
        video_only == VideoOnlySorted(formats)
        audio_only == AudioOnlySorted(formats)
    IN  IF best_url = <<>> \/ video_only = <<>> \/ audio_only = <<>>
        THEN formats
        ELSE LET best_video == video_only[1]
                 best_audio == audio_only[1]
                 best_height == best_video.height
                 best_ext == "mp4"
             IN  <<FormatInfo(
                       [format_id |-> <<"b","e","s","t">>,
                        label |-> "Best Quality (Merged) " \o Upper(best_ext),
                        quality |-> BestQuality(best_height),
                        extension |-> best_ext,
                        is_audio |-> FALSE, is_video_only |-> FALSE,
                        has_video |-> TRUE, has_audio |-> TRUE,
                        height |-> best_height,
                        url |-> MergeUrl(best_video.format_id,
                                         best_audio.format_id, best_url)])>>
                 \o formats

\* the loop over audio_formats (327-333) from element i on: the best rate and
\* url found so far
RECURSIVE BestAudioLoop(_, _, _)
BestAudioLoop(audio_formats, i, best) ==
    IF i > Len(audio_formats) THEN best
    ELSE LET af == audio_formats[i]
             afbr == IF Truthy(af.abr) THEN af.abr ELSE OrZero(af.tbr)
         IN  IF afbr > best.abr
             THEN BestAudioLoop(audio_formats, i + 1,
                                [abr |-> afbr, url |-> af.url])
             ELSE BestAudioLoop(audio_formats, i + 1, best)

S_bestaudio_mp3 == <<"b","e","s","t","a","u","d","i","o","_","m","p","3">>

\* an mp3 entry built without has_video=False: the field keeps its default
Mp3FormatVideoDefault(best_abr, best_audio_url) ==
    FormatInfo(
        [format_id |-> S_bestaudio_mp3,
         label |-> IF best_abr # 0
                   THEN "Audio MP3 (" \o ToString(IntOf(best_abr)) \o "kbps)"
                   ELSE "Audio MP3",
         quality |-> IF best_abr # 0
                     THEN ToString(IntOf(best_abr)) \o "kbps" ELSE "Audio",
         extension |-> "mp3",
         is_audio |-> TRUE, is_video_only |-> FALSE, has_audio |-> TRUE,
         abr |-> IF best_abr # 0 THEN best_abr ELSE NoNum,
         url |-> best_audio_url])

\* the mp3 entry (340-351)
Mp3Format(best_abr, best_audio_url) ==
    FormatInfo(
        [format_id |-> S_bestaudio_mp3,
         label |-> IF best_abr # 0
                   THEN "Audio MP3 (" \o ToString(IntOf(best_abr)) \o "kbps)"
                   ELSE "Audio MP3",
         quality |-> IF best_abr # 0
                     THEN ToString(IntOf(best_abr)) \o "kbps" ELSE "Audio",
         extension |-> "mp3",
         is_audio |-> TRUE, is_video_only |-> FALSE,
         has_video |-> FALSE, has_audio |-> TRUE,
         abr |-> IF best_abr # 0 THEN best_abr ELSE NoNum,
         url |-> best_audio_url])

\* the formats of the InfoResponse that _sync_extract_info returns (314-352)
SyncExtractFormats(info) ==
    LET extracted == ExtractFormats(info)
        IsAudio(f) == f.is_audio
        HasVideo(f) == f.has_video
        audio_formats == SelectSeq(extracted, IsAudio)
        video_formats == SelectSeq(extracted, HasVideo)
        formats == IF video_formats # <<>>
                   THEN AddBestMergedFormat(info, extracted)
                   ELSE extracted
    IN  IF audio_formats # <<>> \/ video_formats # <<>>
        THEN LET best == BestAudioLoop(audio_formats, 1,
                                       [abr |-> 0, url |-> <<>>])
                 best_audio_url == IF best.url = <<>> /\ formats # <<>>
                                   THEN formats[1].url ELSE best.url
             IN  IF best_audio_url # <<>>
                 THEN Append(formats, Mp3Format(best.abr, best_audio_url))
                 ELSE formats
        ELSE formats

(***************************************************************************)
(* One extraction: the engine's info document is built stream by stream,   *)
(* then _sync_extract_info turns it into the catalog.                      *)
(***************************************************************************)
U1 == <<"h","t","t","p","s",":","/","/","c","/","1">>
U2 == <<"h","t","t","p","s",":","/","/","c","/","2">>
U3 == <<"h","t","t","p","s",":","/","/","c","/","3">>
Page == <<"h","t","t","p","s",":","/","/","s","/","w">>
\* a page address that holds a percent escape
EscapedPage == <<"h","t","t","p","s",":","/","/","s","/","%","2","F">>

\* a raw stream descriptor
RawStream(format_id, url, protocol, vcodec, acodec, height, ext, rates) ==
    [format_id |-> format_id, url |-> url, manifest_url |-> <<>>,
     protocol |-> protocol, vcodec |-> vcodec, acodec |-> acodec,
     height |-> height, ext |-> ext, fps |-> rates.fps, tbr |-> rates.tbr,
     abr |-> rates.abr]

Rates(fps, tbr, abr) == [fps |-> fps, tbr |-> tbr, abr |-> abr]

\* the raw stream descriptors an info document is built from
RawPool ==
    { \* video-only 1080p and the audio-only stream at 128 kbps
      RawStream(<<"1","3","7">>, U1, "https", "avc1", "none", 1080, "mp4",
                Rates(30, 40000, NoNum)),
      RawStream(<<"1","4","0">>, U2, "https", "none", "mp4a", NoNum, "m4a",
                Rates(NoNum, 1300, 1280)),
      \* streams with both video and audio, below and above 1080p
      RawStream(<<"1","8">>, U3, "https", "avc1", "mp4a", 360, "mp4",
                Rates(30, 5000, 960)),
      RawStream(<<"2","2">>, U3, "https", "avc1", "mp4a", 2160, "mp4",
                Rates(60, 90000, 1280)),
      \* an audio-only mp3 stream
      RawStream(<<"m","3">>, U3, "https", None, "mp3", NoNum, "mp3",
                Rates(NoNum, NoNum, 1285)),
      \* a video-only stream without a format id, at 60 frames per second
      RawStream(<<>>, U2, "https", "vp9", "none", 720, "webm",
                Rates(60, 20000, NoNum)),
      \* the same stream under a format id: the same label, so the later of
      \* the two is dropped as a duplicate
      RawStream(<<"3","0","2">>, U3, "https", "vp9", "none", 720, "webm",
                Rates(60, 21000, NoNum)),
      \* a video-only stream whose height is unknown
      RawStream(<<"9">>, U1, "m3u8_native", "avc1", None, NoNum, "mp4",
                Rates(NoNum, NoNum, NoNum)),
      \* a second 1080p mp4 video-only stream: the same label as 137
      RawStream(<<"2","9","9">>, U2, "https", "avc1", "none", 1080, "mp4",
                Rates(30, 50000, NoNum)),
      \* an audio-only stream with no known bit rate
      RawStream(<<"a","0">>, U1, "https", "none", "opus", NoNum, "webm",
                Rates(NoNum, NoNum, NoNum)),
      \* streams that are skipped: no url, a manifest protocol, a storyboard
      RawStream(<<"1","3","6">>, <<>>, "https", "avc1", "none", 720, "mp4",
                Rates(30, 20000, NoNum)),
      RawStream(<<"h","l","s">>, U3, "m3u8", "none", "mp4a", NoNum, "m4a",
                Rates(NoNum, NoNum, 640)),
      RawStream(<<"s","b","0">>, U3, "mhtml", "none", "none", 90, "mhtml",
                Rates(NoNum, NoNum, NoNum)) }

\* the webpage_url and url fields of the info documents that are modelled
InfoHeads ==
    { [webpage_url |-> Page, url |-> <<>>],
      [webpage_url |-> EscapedPage, url |-> <<>>],
      [webpage_url |-> <<>>, url |-> U1],
      [webpage_url |-> <<>>, url |-> <<>>] }

InitCatalog ==
    /\ \E h \in InfoHeads :
          raw = [formats |-> <<>>, webpage_url |-> h.webpage_url, url |-> h.url]
    /\ catalog = NoCatalog
    /\ info_call = NoInfoCall
    /\ InitDownload
    /\ InitLimiter
    /\ InitSanitize
    /\ InitPool

\* the extraction engine reports one more stream of the media item
EngineReportsStream(f) ==
    /\ catalog = NoCatalog
    /\ info_call = NoInfoCall
    /\ Len(raw.formats) < MaxFormats
    /\ raw' = [raw EXCEPT !.formats = Append(@, f)]
    /\ UNCHANGED <<catalog, info_call>>

\* _sync_extract_info on the info document (285-381)
SyncExtractInfo ==
    /\ catalog = NoCatalog
    /\ catalog' = [built |-> TRUE, formats |-> SyncExtractFormats(raw)]
    /\ UNCHANGED <<raw, info_call>>

NextCatalog ==
    \/ \E f \in RawPool : EngineReportsStream(f) /\ UNCHANGED <<downloadVars, limiterVars, unitVars>>
    \/ SyncExtractInfo /\ UNCHANGED <<downloadVars, limiterVars, unitVars>>

SpecCatalog == InitCatalog /\ [][NextCatalog]_vars

(***************************************************************************)
(* POST /api/info (main.py 95-135) over extract_video_info and             *)
(* _sync_extract_info (services/downloader.py 285-401).  Messages are      *)
(* strings.                                                                *)
(***************************************************************************)
\* `k in s` on strings
Contains(s, k) ==
    \E i \in 1..(Len(s) - Len(k) + 1) : SubSeq(s, i, i + Len(k) - 1) = k

\* str.lower on a message
RECURSIVE LowerMsg(_)
LowerMsg(s) ==
    IF s = "" THEN ""
    ELSE LowerChar(SubSeq(s, 1, 1)) \o LowerMsg(SubSeq(s, 2, Len(s)))

\* the \s* of the pattern: leading blanks dropped
RECURSIVE StripBlanks(_)
StripBlanks(s) ==
    IF s # "" /\ SubSeq(s, 1, 1) = " " THEN StripBlanks(SubSeq(s, 2, Len(s))) ELSE s

\* re.sub(r"^ERROR:\s*", "", error_msg) (downloader.py 294)
StripErrorPrefix(error_msg) ==
    IF Len(error_msg) >= 6 /\ SubSeq(error_msg, 1, 6) = "ERROR:"
    THEN StripBlanks(SubSeq(error_msg, 7, Len(error_msg)))
    ELSE error_msg

\* str(e) of the DownloadErrors the engine raises in the model
DownloadErrors ==
    { "ERROR: [youtube] a1: Private video. Sign in if you've been granted access",
      "ERROR: [youtube] a1: Sign in to confirm your age",
      "ERROR: [youtube] a1: Video unavailable. This video is private",
      "ERROR: [site] a1: Login required",
      "ERROR: Unsupported URL: https://example.com/clip",
      "ERROR: Unsupported URL: https://example.com/page",
      "ERROR: [site] a1: This format is not supported",
      "ERROR: [youtube] a1: Video unavailable. Not available in your country",
      "ERROR: [site] a1: Removed on a COPYRIGHT claim",
      "ERROR: [site] a1: Blocked on copyright grounds",
      "ERROR: [site] a1: Read timed out",
      "ERROR:[site] a1: Connection TIMEOUT in your country",
      "ERROR: [site] a1: GEO restricted",
      "ERROR:   [site] a1: The uploader has blocked it in your country",
      "ERROR: Unable to download webpage",
      "ERROR: [site] a1: HTTP Error 404: Not Found",
      "[site] a1: PRIVATE" }

\* what the engine and the processing of its document do for one request
EngineOutcomes ==
    { [kind |-> k, msg |-> ""] :
        k \in {"info", "engine_exception", "no_info", "empty_playlist",
               "processing_exception", "validation_error", "deadline",
               "unguarded_exception"} }
    \cup { [kind |-> "download_error", msg |-> m] : m \in DownloadErrors }

\* the outcomes in which the engine hands back no info document
NoDocumentKinds == {"download_error", "engine_exception", "no_info"}

ValueError(msg) == [raised |-> "ValueError", msg |-> msg]

\* What `await extract_video_info(url)` does (downloader.py 285-401): it
\* returns, raises ValueError(msg), or lets another exception through (one
\* raised outside the try blocks: in lines 300-311, or by run_in_executor).
ExtractVideoInfo(o) ==
    CASE o.kind = "info" -> [raised |-> "none", msg |-> ""]
      [] o.kind = "download_error" -> ValueError(StripErrorPrefix(o.msg))
      [] o.kind = "engine_exception" ->
            ValueError("Failed to extract video information")
      [] o.kind = "no_info" ->
            ValueError("Could not extract video information from this URL")
      [] o.kind = "empty_playlist" -> ValueError("Playlist is empty")
      [] o.kind = "validation_error" ->
            ValueError("Video data format is invalid or unsupported")
      [] o.kind = "processing_exception" ->
            ValueError("Failed to process video information")
      [] o.kind = "deadline" ->
            ValueError("Request timed out. The video might be too large or the site is slow.")
      [] o.kind = "unguarded_exception" -> [raised |-> "Exception", msg |-> ""]

\* the chain with the test for 'unavailable' moved in front of the others
ClassifyUnavailableFirst(error_msg) ==
    LET lower_msg == LowerMsg(error_msg)
    IN  IF Contains(lower_msg, "unavailable") \/ Contains(lower_msg, "removed")
        THEN "unavailable"
        ELSE IF Contains(lower_msg, "private") THEN "private_video"
        ELSE IF Contains(lower_msg, "age") \/ Contains(lower_msg, "sign in")
                \/ Contains(lower_msg, "login")
        THEN "age_restricted"
        ELSE IF Contains(lower_msg, "not supported") \/ Contains(lower_msg, "unsupported")
        THEN "unsupported_site"
        ELSE IF Contains(lower_msg, "copyright") THEN "copyright"
        ELSE IF Contains(lower_msg, "timed out") \/ Contains(lower_msg, "timeout")
        THEN "timeout"
        ELSE IF Contains(lower_msg, "geo") \/ Contains(lower_msg, "country")
        THEN "geo_restricted"
        ELSE "extraction_error"

\* the if/elif chain of get_video_info (main.py 101-117)
Classify(error_msg) ==
    LET lower_msg == LowerMsg(error_msg)
    IN  IF Contains(lower_msg, "private") THEN "private_video"
        ELSE IF Contains(lower_msg, "age") \/ Contains(lower_msg, "sign in")
                \/ Contains(lower_msg, "login")
        THEN "age_restricted"
        ELSE IF Contains(lower_msg, "not supported") \/ Contains(lower_msg, "unsupported")
        THEN "unsupported_site"
        ELSE IF Contains(lower_msg, "unavailable") \/ Contains(lower_msg, "removed")
        THEN "unavailable"
        ELSE IF Contains(lower_msg, "copyright") THEN "copyright"
        ELSE IF Contains(lower_msg, "timed out") \/ Contains(lower_msg, "timeout")
        THEN "timeout"
        ELSE IF Contains(lower_msg, "geo") \/ Contains(lower_msg, "country")
        THEN "geo_restricted"
        ELSE "extraction_error"

\* the InfoResponse returned with status 200
InfoResponseOk ==
    [status |-> 200, body |-> "info", error_type |-> None, content_range |-> NoHeader]

\* POST /api/info: the whole handler (main.py 95-135)
GetVideoInfo(o) ==
    /\ info_call = NoInfoCall
    /\ catalog = NoCatalog
    /\ o.kind \in NoDocumentKinds => raw.formats = <<>>
    /\ LET r == ExtractVideoInfo(o)
       IN  CASE r.raised = "none" ->
                  /\ catalog' = [built |-> TRUE, formats |-> SyncExtractFormats(raw)]
                  /\ info_call' = [outcome |-> o.kind, error_msg |-> "",
                                   resp |-> InfoResponseOk]
             [] r.raised = "ValueError" ->
                  /\ info_call' = [outcome |-> o.kind, error_msg |-> r.msg,
                                   resp |-> ErrorResponse(400, Classify(r.msg))]
                  /\ UNCHANGED catalog
             [] r.raised = "Exception" ->
                  /\ info_call' =
                        [outcome |-> o.kind,
                         error_msg |-> "An unexpected error occurred. Please try again.",
                         resp |-> ErrorResponse(500, "server_error")]
                  /\ UNCHANGED catalog
    /\ UNCHANGED raw

NextInfo ==
    \/ \E f \in RawPool :
          /\ Len(raw.formats) < MaxInfoFormats
          /\ EngineReportsStream(f) /\ UNCHANGED <<downloadVars, limiterVars, unitVars>>
    \/ \E o \in EngineOutcomes : GetVideoInfo(o) /\ UNCHANGED <<downloadVars, limiterVars, unitVars>>

SpecInfo == InitCatalog /\ [][NextInfo]_vars

(***************************************************************************)
(* The rate limiter under requests of two clients.                         *)
(***************************************************************************)
NextLimiter ==
    \/ \E c \in Clients : Arrive(c) /\ UNCHANGED <<downloadVars, catalogVars, unitVars>>
    \/ \E c \in Clients : IsRateLimited(c) /\ UNCHANGED <<downloadVars, catalogVars, unitVars>>
    \/ \E d \in TickSteps : Tick(d) /\ UNCHANGED <<downloadVars, catalogVars, unitVars>>

SpecLimiter == Init /\ [][NextLimiter]_vars

(***************************************************************************)
(* _sanitize_filename applied to one name.                                 *)
(***************************************************************************)
NextSanitize ==
    \E name \in Names :
        Sanitize(name) /\ UNCHANGED <<downloadVars, catalogVars, limiterVars, pool>>

SpecSanitize == Init /\ [][NextSanitize]_vars

(***************************************************************************)
(* Calls of extract_video_info on the worker pool.                         *)
(***************************************************************************)
NextPool ==
    \/ ExtractCall /\ UNCHANGED <<downloadVars, catalogVars, limiterVars, sanitized>>
    \/ \E i \in 1..MaxCalls :
          TaskReturns(i) /\ UNCHANGED <<downloadVars, catalogVars, limiterVars, sanitized>>
    \/ \E i \in 1..MaxCalls :
          TimeoutFires(i) /\ UNCHANGED <<downloadVars, catalogVars, limiterVars, sanitized>>
    \/ \E d \in PoolTickSteps :
          PoolTick(d) /\ UNCHANGED <<downloadVars, catalogVars, limiterVars, sanitized>>

SpecPool == Init /\ [][NextPool]_vars

(***************************************************************************)
(* Properties of the download endpoint.                                    *)
(***************************************************************************)
AllTerminated == \A p \in Procs : Terminal(proc, p)

\* C1: if the client disconnects while the relay generator is streaming the
\* muxer's output, then eventually the video producer, the audio producer and
\* the muxer are all exited or killed and both named pipes are removed.
C1_DisconnectLeadsToTeardown ==
    (ended = "cancelled") ~> (AllTerminated /\ pipes = NoPipes)

\* the disconnect arrived while all three processes were running, and the
\* finally block has signalled each of them
C1_Witness ==
    /\ ended = "cancelled"
    /\ \A p \in Procs : proc[p] = "signalled"
    /\ pipes = NoPipes

MuxEnds == {"pipe_failed", "no_muxer", "launch_failed", "muxer_failed",
            "completed", "failed", "cancelled", "cancelled_unstarted"}

\* C2: after a mux request has ended, by whichever path, no pipe file of the
\* session remains and no process started for the session is still running.
C2_NoLeakAfterMuxEnds ==
    (pc = "done" /\ ended \in MuxEnds) =>
        (pipes = NoPipes /\ \A p \in Procs : proc[p] # "running")

\* the decoded url of the request is a direct http(s) url
IsHttpRequest ==
    LET l == Lower(Unquote(req.url))
    IN  pc # "idle" /\ (StartsWith(l, S_http) \/ StartsWith(l, S_https))

\* C3: for a direct http(s) download whose upstream answers with a status
\* below 400, the Range header goes upstream verbatim and the response carries
\* the upstream's status code and its Content-Range unchanged.
C3_RangePassthrough ==
    (IsHttpRequest /\ req.up.kind = "response" /\ req.up.status < 400) =>
        /\ sent_range = req.range
        /\ resp.status = req.up.status
        /\ resp.content_range = req.up.content_range

\* the decoded url begins, letter case aside, with one of the three schemes
BeginsWithKnownScheme(u) ==
    \E p \in {S_http, S_https, S_merge} :
        Len(u) >= Len(p) /\ \A i \in 1..Len(p) : LowerChar(u[i]) = p[i]

\* C4: every download request whose decoded url starts with neither http://,
\* https:// nor merge: is answered with a 400 invalid_url, and on that path no
\* upstream call is made, no pipe is created and no process is launched.
C4_InvalidUrlRejected ==
    (pc # "idle" /\ ~BeginsWithKnownScheme(Unquote(req.url))) =>
        /\ pc = "done"
        /\ resp = ErrorResponse(400, "invalid_url")
        /\ net_calls = 0
        /\ upstream = "none"
        /\ pipes = NoPipes
        /\ \A p \in Procs : proc[p] = "none"

\* a request for an ftp:// url was answered
C4_Witness ==
    /\ pc = "done"
    /\ StartsWith(req.url, <<"f","t","p",":","/","/">>)
    /\ resp.error_type = "invalid_url"

\* C9: when the upstream of a direct request answers with a status of 400 or
\* more, the response is a 502 upstream_error, no byte of the upstream body is
\* sent, and the upstream connection is not left open.
C9_UpstreamErrorStatus ==
    (IsHttpRequest /\ req.up.kind = "response" /\ req.up.status >= 400) =>
        /\ resp = ErrorResponse(502, "upstream_error")
        /\ sent = <<>>
        /\ upstream # "open"

\* C10: an upstream timeout of a direct request is answered with a 504 timeout
\* error, any other upstream I/O fault with a 502 upstream_error.
C10_TimeoutAndIoFault ==
    /\ (IsHttpRequest /\ req.up.kind = "timeout") =>
           resp = ErrorResponse(504, "timeout")
    /\ (IsHttpRequest /\ req.up.kind = "io_error") =>
           resp = ErrorResponse(502, "upstream_error")

(***************************************************************************)
(* Properties of the catalog.                                              *)
(***************************************************************************)
Entries == catalog.formats

\* the entry is the synthesized merged-best entry
IsMergedBest(f) == f.format_id = <<"b","e","s","t">>

HasMergedBest == \E i \in 1..Len(Entries) : IsMergedBest(Entries[i])

\* C5: the returned catalog, synthesized entries included, has no two
\* entries with the same (label, extension).
C5_NoDuplicateLabelExtension ==
    catalog.built =>
        \A i, j \in 1..Len(Entries) :
            i # j => <<Entries[i].label, Entries[i].extension>>
                     # <<Entries[j].label, Entries[j].extension>>

\* 0: video and audio, 1: video only, 2: audio only, 3: neither
CategoryOf(f) ==
    IF f.has_video /\ f.has_audio THEN 0
    ELSE IF f.has_video THEN 1
    ELSE IF f.has_audio THEN 2
    ELSE 3

\* entries i < j are in the order of the three categories
CategoryOrdered(i, j) ==
    (CategoryOf(Entries[i]) < 3 /\ CategoryOf(Entries[j]) < 3) =>
        CategoryOf(Entries[i]) <= CategoryOf(Entries[j])

\* entries i < j of one category are in the order of their heights
HeightOrdered(i, j) ==
    (CategoryOf(Entries[i]) < 3 /\ CategoryOf(Entries[i]) = CategoryOf(Entries[j])) =>
        OrZero(Entries[i].height) >= OrZero(Entries[j].height)

\* C6 as claimed: in every returned catalog, synthesized entries included,
\* entries with video and audio precede video-only entries, which precede
\* audio-only entries, and within each category height (missing: 0) is
\* non-increasing along the list.
C6_CatalogOrdered ==
    catalog.built =>
        \A i, j \in 1..Len(Entries) :
            i < j => CategoryOrdered(i, j) /\ HeightOrdered(i, j)

\* C6 as amended: the order of the categories holds for the whole catalog,
\* and the height is non-increasing within each category among the entries
\* other than the synthesized merged-best entry, which is put first whatever
\* its height.
C6_CatalogOrderedButMergedBest ==
    catalog.built =>
        \A i, j \in 1..Len(Entries) :
            i < j => /\ CategoryOrdered(i, j)
                     /\ IsMergedBest(Entries[i]) \/ HeightOrdered(i, j)

\* the merged-best entry comes first and a taller entry with video and audio
\* follows it
C6_Witness ==
    /\ catalog.built
    /\ Len(Entries) >= 3
    /\ IsMergedBest(Entries[1])
    /\ CategoryOf(Entries[2]) = 0
    /\ OrZero(Entries[2].height) > OrZero(Entries[1].height)
    /\ CategoryOf(Entries[3]) = 1

\* a raw stream with video and no audio, with audio and no video
RawVideoOnly(f) == CodecOrNone(f.vcodec) # "none" /\ CodecOrNone(f.acodec) = "none"
RawAudioOnly(f) == CodecOrNone(f.vcodec) = "none" /\ CodecOrNone(f.acodec) # "none"

RawStreams == { raw.formats[i] : i \in 1..Len(raw.formats) }

\* C7 as claimed: the catalog has an entry with format_id 'best' if and only
\* if the raw list has a video-only and an audio-only stream that survive
\* normalization and the info document carries a webpage reference.
C7_BestIffBothKinds ==
    catalog.built =>
        (HasMergedBest <=>
            /\ \E f \in RawStreams : ~Skipped(f) /\ RawVideoOnly(f)
            /\ \E f \in RawStreams : ~Skipped(f) /\ RawAudioOnly(f)
            /\ BestUrl(raw) # <<>>)

\* the entries that normalization and de-duplication leave
NormalizedEntries ==
    LET n == ExtractFormats(raw) IN { n[i] : i \in 1..Len(n) }

\* C7 as amended: the catalog has an entry with format_id 'best' if and only
\* if the normalized, de-duplicated entries include a video-only one and an
\* audio-only one that each have a non-empty format_id, and the info document
\* carries a webpage_url or, failing that, a url.
C7_BestIffBothKindsWithIds ==
    catalog.built =>
        (HasMergedBest <=>
            /\ \E f \in NormalizedEntries : f.is_video_only /\ f.format_id # <<>>
            /\ \E f \in NormalizedEntries : f.is_audio /\ f.format_id # <<>>
            /\ raw.webpage_url # <<>> \/ raw.url # <<>>)

\* a catalog without a merged-best entry although a video-only stream and an
\* audio-only stream survived and the webpage is known: the video-only stream
\* has no format id
C7_Witness ==
    /\ catalog.built
    /\ ~HasMergedBest
    /\ raw.webpage_url # <<>>
    /\ \E f \in RawStreams : ~Skipped(f) /\ RawVideoOnly(f)
    /\ \E f \in RawStreams : ~Skipped(f) /\ RawAudioOnly(f)

\* the engine returned exactly one video-only stream of height 1080 and one
\* audio-only stream of 128 kbps, and a webpage reference
C8_Case ==
    /\ catalog.built
    /\ Len(raw.formats) = 2
    /\ raw.webpage_url # <<>>
    /\ \E f \in RawStreams : RawVideoOnly(f) /\ f.height = 1080
    /\ \E f \in RawStreams : RawAudioOnly(f) /\ f.abr = 1280

IsMp3Entry(f) == f.format_id = S_bestaudio_mp3 /\ f.extension = "mp3"

\* C8 as claimed: in that case the catalog has exactly 3 entries: merged-best,
\* the 1080p video-only entry, the synthesized MP3 entry, in that order.
C8_ThreeEntries ==
    C8_Case =>
        /\ Len(Entries) = 3
        /\ IsMergedBest(Entries[1])
        /\ Entries[2].is_video_only /\ Entries[2].height = 1080
        /\ IsMp3Entry(Entries[3])

\* C8 as amended: when both streams have a usable url and a format id, the
\* catalog has exactly 4 entries: merged-best, the 1080p video-only entry, the
\* audio-only entry, the synthesized MP3 entry, in that order.
C8_FourEntries ==
    (C8_Case /\ \A f \in RawStreams : ~Skipped(f) /\ f.format_id # <<>>) =>
        /\ Len(Entries) = 4
        /\ IsMergedBest(Entries[1])
        /\ Entries[2].is_video_only /\ Entries[2].height = 1080
        /\ Entries[2].quality = "1080p"
        /\ Entries[3].is_audio /\ Entries[3].abr = 1280
        /\ ~IsMp3Entry(Entries[3])
        /\ IsMp3Entry(Entries[4]) /\ Entries[4].is_audio
        /\ Entries[4].has_audio /\ ~Entries[4].has_video

C8_Witness ==
    /\ C8_Case
    /\ \A f \in RawStreams : ~Skipped(f) /\ f.format_id # <<>>
    /\ Len(Entries) = 4


(***************************************************************************)
(* The error envelope of the HTTP API.                                     *)
(***************************************************************************)
ErrorTypes ==
    {"extraction_error", "private_video", "age_restricted", "unsupported_site",
     "unavailable", "copyright", "timeout", "geo_restricted", "invalid_url",
     "upstream_error", "server_error", "rate_limit"}

HasEnvelope(r) == r.body = "envelope" /\ r.error_type \in ErrorTypes

\* C12: every error response of the API (status 400 or more) has the envelope
\* shape: success=false, an error string and an error_type of the listed set.
C12_ErrorEnvelope ==
    resp.status >= 400 => HasEnvelope(resp)


(***************************************************************************)
(* Properties of the info endpoint.                                        *)
(***************************************************************************)
InfoFailed == info_call.resp.status >= 400

\* C13: when the extraction exceeds the configured deadline, /api/info
\* answers with error_type timeout and a 504 status.
C13_DeadlineIs504Timeout ==
    info_call.outcome = "deadline" =>
        /\ info_call.resp.error_type = "timeout"
        /\ info_call.resp.status = 504

UnexpectedOutcomes ==
    {"engine_exception", "processing_exception", "validation_error",
     "unguarded_exception"}

\* C14: an unexpected exception raised while /api/info extracts or processes
\* the media document is answered with server_error, never with one of the
\* extraction error types.
C14_UnexpectedIsServerError ==
    info_call.outcome \in UnexpectedOutcomes =>
        info_call.resp.error_type = "server_error"

\* the rules of the classification, in their order
Rules ==
    << [keys |-> {"private"}, type |-> "private_video"],
       [keys |-> {"age", "sign in", "login"}, type |-> "age_restricted"],
       [keys |-> {"not supported", "unsupported"}, type |-> "unsupported_site"],
       [keys |-> {"unavailable", "removed"}, type |-> "unavailable"],
       [keys |-> {"copyright"}, type |-> "copyright"],
       [keys |-> {"timed out", "timeout"}, type |-> "timeout"],
       [keys |-> {"geo", "country"}, type |-> "geo_restricted"] >>

RuleMatches(i, m) == \E k \in Rules[i].keys : Contains(LowerMsg(m), k)

FirstRule(m) ==
    LET hits == { i \in 1..Len(Rules) : RuleMatches(i, m) }
    IN  IF hits = {} THEN "extraction_error"
        ELSE Rules[CHOOSE i \in hits : \A j \in hits : i <= j].type

\* the extraction failed with a message (extract_video_info raised ValueError)
FailedWithMessage == InfoFailed /\ info_call.outcome # "unguarded_exception"

\* C15: the error_type of a failed /api/info is the type of the first rule,
\* in the listed order, that matches the lower-cased message, and
\* extraction_error when no rule matches.
C15_FirstMatchingRule ==
    FailedWithMessage => info_call.resp.error_type = FirstRule(info_call.error_msg)

\* a failure whose message matches two rules: the earlier one is chosen
C15_Witness ==
    /\ FailedWithMessage
    /\ \E i, j \in 1..Len(Rules) :
          /\ i < j
          /\ RuleMatches(i, info_call.error_msg)
          /\ RuleMatches(j, info_call.error_msg)
          /\ info_call.resp.error_type = Rules[i].type


(***************************************************************************)
(* Properties of the catalog's entries and of the synthesized entries.     *)
(***************************************************************************)
FlagsMatchCodecs(f) ==
    /\ f.has_video = (f.vcodec # None)
    /\ f.has_audio = (f.acodec # None)
    /\ f.is_audio = (f.has_audio /\ ~f.has_video)
    /\ f.is_video_only = (f.has_video /\ ~f.has_audio)

\* C16: every entry of a returned catalog, synthesized entries included, has
\* has_video exactly when it has a vcodec, has_audio exactly when it has an
\* acodec, is_audio = has_audio and not has_video, and is_video_only =
\* has_video and not has_audio.
C16_FlagsMatchCodecs ==
    catalog.built => \A i \in 1..Len(Entries) : FlagsMatchCodecs(Entries[i])

AudioOnlyEntries == { f \in NormalizedEntries : f.is_audio }
VideoOnlyEntries == { f \in NormalizedEntries : f.is_video_only }

\* abr, or tbr when abr is missing, or 0
AudioRate(f) == IF f.abr # NoNum THEN f.abr ELSE OrZero(f.tbr)

\* C17: whenever the catalog holds an audio-only format, the url of the
\* bestaudio_mp3 entry is the url of an audio-only format whose rate (abr, or
\* tbr when abr is missing) is the greatest.
C17_Mp3UrlIsBestAudio ==
    (catalog.built /\ AudioOnlyEntries # {}) =>
        /\ IsMp3Entry(Entries[Len(Entries)])
        /\ \E f \in AudioOnlyEntries :
              /\ \A g \in AudioOnlyEntries : AudioRate(g) <= AudioRate(f)
              /\ Entries[Len(Entries)].url = f.url

VideoKey(f) == <<OrZero(f.height), OrZero(f.tbr)>>

\* f is greatest in V by (height, tbr), g is greatest in A by abr
Greatest(f, V, g, A) ==
    /\ \A v \in V : ~TupleLess(VideoKey(f), VideoKey(v))
    /\ \A a \in A : OrZero(a.abr) <= OrZero(g.abr)

\* the first entry's merge reference names f and g
MergeNames(f, g) ==
    Entries[1].url = MergeUrl(f.format_id, g.format_id, BestUrl(raw))

\* C18 as claimed: a synthesized merged-best entry is the first entry, and its
\* merge reference embeds the format_id of the video-only format with the
\* greatest (height, tbr) and of the audio-only format with the greatest abr.
C18_BestNamesGreatest ==
    (catalog.built /\ HasMergedBest) =>
        /\ IsMergedBest(Entries[1])
        /\ \E f \in VideoOnlyEntries, g \in AudioOnlyEntries :
              Greatest(f, VideoOnlyEntries, g, AudioOnlyEntries) /\ MergeNames(f, g)

WithId(S) == { f \in S : f.format_id # <<>> }

\* C18 as amended: a synthesized merged-best entry is the first entry, and its
\* merge reference embeds the format_id of the greatest, by (height, tbr), of
\* the video-only formats that have a format_id, and of the greatest, by abr,
\* of the audio-only formats that have a format_id.
C18_BestNamesGreatestWithId ==
    (catalog.built /\ HasMergedBest) =>
        /\ IsMergedBest(Entries[1])
        /\ \E f \in WithId(VideoOnlyEntries), g \in WithId(AudioOnlyEntries) :
              /\ Greatest(f, WithId(VideoOnlyEntries), g, WithId(AudioOnlyEntries))
              /\ MergeNames(f, g)

\* a merged-best entry chosen among two video-only formats of different
\* (height, tbr): the first entry names the greater one
C18_Witness ==
    /\ catalog.built /\ HasMergedBest
    /\ IsMergedBest(Entries[1])
    /\ \E f, v \in WithId(VideoOnlyEntries), g \in WithId(AudioOnlyEntries) :
          TupleLess(VideoKey(v), VideoKey(f)) /\ MergeNames(f, g)


(***************************************************************************)
(* Properties of the mux pipeline's start-up failures.                     *)
(***************************************************************************)
Producers == {"aud", "vid"}

\* C19: if the muxer executable is unavailable or the muxer process cannot
\* be started, the mux request fails with a 500 response and no producer
\* process of the request is left running.
C19_MuxerFailureStopsProducers ==
    ended \in {"no_muxer", "muxer_failed"} =>
        /\ resp.status = 500
        /\ \A p \in Producers : ~Alive(proc, p)

\* the muxer failed to start while a producer was running: it was killed
C19_Witness ==
    /\ ended = "muxer_failed"
    /\ resp.status = 500
    /\ \E p \in Producers : proc[p] = "killed"

\* C20: if creating either named pipe fails, the mux request fails with a
\* 500 response and no producer and no muxer process is ever started for it.
C20_PipeFailureStartsNothing ==
    ended = "pipe_failed" =>
        /\ resp.status = 500
        /\ \A p \in Procs : proc[p] = "none"

\* the second pipe could not be created, after the first one was
C20_Witness ==
    /\ ended = "pipe_failed"
    /\ pipes.vid /\ ~pipes.aud
    /\ resp.status = 500


(***************************************************************************)
(* Properties of the rate limiter.                                         *)
(***************************************************************************)
\* the requests of client c admitted at a time in [from, from + window]
AdmittedIn(c, from) ==
    { i \in 1..Len(admitted[c]) :
        from <= admitted[c][i] /\ admitted[c][i] <= from + window }

\* C21: for every client key and under every interleaving of requests, the
\* number of requests admitted within any 60-second window never exceeds
\* RATE_LIMIT_RPM.  (A window that holds the most admitted requests can be
\* moved to start at the first of them, so the windows that start at an
\* admitted request are the ones to count.)
C21_WindowNeverExceedsRpm ==
    \A c \in Clients : \A i \in 1..Len(admitted[c]) :
        Cardinality(AdmittedIn(c, admitted[c][i])) <= rpm

\* a client filled its window and its next request was rejected, while a
\* request of the other client was waiting for the limiter
C21_Witness ==
    \E c \in Clients :
        /\ Len(admitted[c]) = rpm
        /\ decision.limited /\ decision.client = c
        /\ \E k \in Clients \ {c} : in_flight[k] > 0

\* the timestamps of a list that the window still holds at time t
RECURSIVE Live(_, _)
Live(timestamps, t) ==
    IF timestamps = <<>> THEN <<>>
    ELSE IF Head(timestamps) < t - window THEN Live(Tail(timestamps), t)
    ELSE <<Head(timestamps)>> \o Live(Tail(timestamps), t)

\* the step is a call of _is_rate_limited that rejects the request
Rejects == decision'.calls = decision.calls + 1 /\ decision'.limited

\* C30: a request rejected as rate-limited records no timestamp: after it the
\* recorded times of every client are what they were, or what they were
\* without the entries older than the window.
C30_RejectionRecordsNothing ==
    [][Rejects => \A k \in Clients :
                     Get(requests', k) \in {Get(requests, k), Live(Get(requests, k), now)}]_vars

\* a request was rejected while the window of its client was full
C30_Witness ==
    /\ decision.limited
    /\ Len(Get(requests, decision.client)) = rpm
    /\ decision.value >= 1


(***************************************************************************)
(* Properties of _sanitize_filename.                                       *)
(***************************************************************************)
CharAt(name, i) == SubSeq(name, i, i)

\* the claim's steps, by position: the positions that hold neither a dot nor
\* a space bound what is kept, and at most 200 characters are kept
ClaimedName(name) ==
    LET replaced == SubUnsafe(name)
        keep == { i \in 1..Len(replaced) : CharAt(replaced, i) \notin {".", " "} }
        first == CHOOSE i \in keep : \A j \in keep : i <= j
        last == CHOOSE i \in keep : \A j \in keep : j <= i
    IN  IF keep = {} THEN "download"
        ELSE SubSeq(replaced, first, IF last - first >= 200 THEN first + 199 ELSE last)

NoUnsafeChar(name) == \A i \in 1..Len(name) : CharAt(name, i) \notin UnsafeChars

\* C22: _sanitize_filename returns the name with each unsafe character
\* replaced by '_', leading and trailing dots and spaces stripped, 'download'
\* if that is empty, cut to its first 200 characters; '' gives 'download',
\* 'a/b:c*d' gives 'a_b_c_d', ' .name. ' gives 'name' and a 300-character
\* name gives exactly 200 characters.
C22_SanitizedName ==
    sanitized.called =>
        /\ sanitized.result = ClaimedName(sanitized.given)
        /\ NoUnsafeChar(sanitized.result)
        /\ Len(sanitized.result) \in 1..200
        /\ sanitized.given = "" => sanitized.result = "download"
        /\ sanitized.given = "a/b:c*d" => sanitized.result = "a_b_c_d"
        /\ sanitized.given = " .name. " => sanitized.result = "name"
        /\ sanitized.given = Repeat("a", 300) => Len(sanitized.result) = 200

\* a name of more than 200 characters between dots and spaces was cut
C22_Witness ==
    /\ sanitized.called
    /\ Len(sanitized.given) > 200
    /\ CharAt(sanitized.given, 1) = " "
    /\ Len(sanitized.result) = 200

C23_TeardownReached ==
    (pc = "relay_read") ~> (pc = "done" /\ pipes = NoPipes)

\* C24: if the launch of a producer fails, the request fails with a 500-class
\* status, and no process started for the request is left running.
C24_ProducerLaunchFailure ==
    ended = "launch_failed" =>
        /\ resp.status >= 500
        /\ \A p \in Procs : ~Alive(proc, p)

Launched(ps, p) == ps[p] # "none"

\* C26: the steps of a mux session occur in the order CREATED, PIPES_READY,
\* PRODUCERS_RUNNING, MUXING: a producer is launched only when both pipes
\* exist, the muxer only when both pipes exist and both producers have been
\* launched, and the relay reads muxer output only after the muxer's launch.
C26_StepsInOrder ==
    [][ /\ \A p \in {"aud", "vid"} :
              (~Launched(proc, p) /\ Launched(proc', p)) => (pipes.vid /\ pipes.aud)
        /\ (~Launched(proc, "ffmpeg") /\ Launched(proc', "ffmpeg")) =>
              /\ pipes.vid /\ pipes.aud
              /\ Launched(proc, "aud") /\ Launched(proc, "vid")
        /\ (nread' # nread \/ pc' \in {"relay_read", "wait_ffmpeg"}) =>
              Launched(proc, "ffmpeg") ]_vars

\* the relay has read muxer output in a session that went through every step
C26_Witness ==
    /\ nread > 0
    /\ \A p \in Procs : Launched(proc, p)

\* C28: in a mux relay the chunks yielded to the client are always a prefix
\* of the chunks read from the muxer's output, in the same order, with none
\* dropped, duplicated or reordered.
C28_SentIsPrefixOfRead ==
    /\ nread <= Len(ffout)
    /\ Len(sent) <= nread
    /\ sent = SubSeq(ffout, 1, Len(sent))
    /\ pc \in {"relay_read", "relay_yield"} => Len(sent) = nread

\* two chunks were read and yielded
C28_Witness ==
    /\ nread >= 2
    /\ Len(sent) >= 2
    /\ sent[1] # sent[2]


(***************************************************************************)
(* Properties of the quality label.                                        *)
(***************************************************************************)
\* the label the claim gives a stream with a video codec
ClaimedQuality(height, fps) ==
    (IF height = NoNum THEN "Video" ELSE HeightTier(height))
    \o (IF fps # NoNum /\ fps > 30 THEN " " \o ToString(fps) \o "fps" ELSE "")

\* C27: for a raw stream with a video codec, the quality label is the height
\* tier, or 'Video' when the height is missing, with ' {fps}fps' appended
\* when fps > 30.
C27_VideoQualityLabel ==
    catalog.built =>
        \A f \in NormalizedEntries :
            f.vcodec # None => f.quality = ClaimedQuality(f.height, f.fps)


(***************************************************************************)
(* The merge reference, from the catalog to the download endpoint.         *)
(***************************************************************************)
\* C29: for every merged-best entry the catalog holds, parsing its url in the
\* download endpoint recovers exactly the video format_id, the audio
\* format_id and the webpage reference it was built from.
C29_MergeUrlRoundTrip ==
    catalog.built =>
        \A i \in 1..Len(Entries) :
            IsMergedBest(Entries[i]) =>
                \E f \in WithId(VideoOnlyEntries), g \in WithId(AudioOnlyEntries) :
                    /\ Entries[i].url = MergeUrl(f.format_id, g.format_id, BestUrl(raw))
                    /\ ParseMergeUrl(Entries[i].url) =
                          [parsed |-> TRUE, vid_id |-> f.format_id,
                           aud_id |-> g.format_id, webpage_url |-> BestUrl(raw)]

=============================================================================
